---- MODULE Spec2Model ----
(***************************************************************************)
(* qsiprep: the pre-HMC workflow builder (workflows/dwi/pre_hmc.py,       *)
(* init_dwi_pre_hmc_wf) and the dMRI summary plot (interfaces/            *)
(* niworkflows.py, dMRIPlot.plot, confoundplot, plot_sliceqc).            *)
(*                                                                         *)
(* Spec     : one call of init_dwi_pre_hmc_wf, one statement per step.    *)
(* PlotSpec : one call of dMRIPlot.plot on a constructed dMRIPlot.        *)
(***************************************************************************)
EXTENDS Integers, Sequences, FiniteSets, TLC

VARIABLES
    \* ---- init_dwi_pre_hmc_wf: the arguments of the call
    dwi_series, rpe_series, dwi_series_pedir, dwi_denoise_window,
    denoise_before_combining, omp_nthreads, low_mem,
    \* ---- init_dwi_pre_hmc_wf: the call's progress and what it has built
    pc,             \* the statement the call is at
    instantiated,   \* every object constructed so far, in order; an object's id is its index
    locals,         \* local variable name -> object id (0: unbound)
    plus_files, minus_files,
    inputs,         \* {<<id, files>>}: <node>.inputs.inputnode.dwi_files = files
    wf_nodes,       \* ids of the nodes workflow.connect has added to the graph
    wf_edges,       \* the graph's edges
    result,         \* "none" | "workflow" (returned) | "error" (raised)
    \* ---- dMRIPlot: the constructed object
    columns,        \* self.confounds.columns, in table order
    conf_len,       \* number of rows of the confound table
    scores_shape,   \* self.qc_data['slice_scores'].shape = <<slices, volumes>>
    counts_len,     \* len(self.qc_data['slice_counts'])
    \* ---- dMRIPlot.plot: the call's progress and what it has drawn
    plot_pc, confound_names, nrows, grid_id, drawn, plot_result,
    \* ---- the caller of the plotting functions
    entry,          \* the function called: "dMRIPlot.plot" | "plot_sliceqc" | "confoundplot"
    tr,             \* the caller's sampling interval in ms; <<>> is None
    hide_x          \* confoundplot's hide_x argument

bvars == <<dwi_series, rpe_series, dwi_series_pedir, dwi_denoise_window,
           denoise_before_combining, omp_nthreads, low_mem, pc, instantiated,
           locals, plus_files, minus_files, inputs, wf_nodes, wf_edges, result>>
pvars == <<columns, conf_len, scores_shape, counts_len, plot_pc, confound_names,
           nrows, grid_id, drawn, plot_result, entry, tr, hide_x>>
vars == <<bvars, pvars>>

\* ------------------------------------------------------------------ bounds
MaxSeries == 2      \* longest dwi_series / rpe_series
MaxWindow == 3      \* dwi_denoise_window ranges over -1..MaxWindow
MaxThreads == 2     \* omp_nthreads ranges over 1..MaxThreads
MaxColumns == 3     \* most columns of the confound table
MaxVols == 3        \* most volumes (rows of the table, columns of slice_scores)
MaxSlices == 2      \* most slices (rows of slice_scores, entries of slice_counts)
MaxFrames == 12     \* most frames given to plot_sliceqc / confoundplot called directly

Range(s) == {s[i] : i \in 1..Len(s)}
SeqsUpTo(S, n) == UNION {[1..k -> S] : k \in 0..n}

DwiFiles == {"sub-01_dir-AP_dwi.nii.gz", "sub-01_dir-AP_run-2_dwi.nii.gz"}
RpeFiles == {"sub-01_dir-PA_dwi.nii.gz", "sub-01_dir-PA_run-2_dwi.nii.gz"}
PeDirs == {<<"i">>, <<"i", "-">>, <<"j">>, <<"j", "-">>}

\* ------------------------------------------------------- pre_hmc.py helpers

\* str.endswith
EndsWith(s, suffix) ==
    /\ Len(s) >= Len(suffix)
    /\ SubSeq(s, Len(s) - Len(suffix) + 1, Len(s)) = suffix

\* niu.IdentityInterface(fields=[...]) of outputnode
OutputFields ==
    <<"dwi_files", "bval_files", "bvec_files", "original_files",
      "b0_images", "b0_indices", "rpe_b0s">>

\* len(rpe_series) > 0
DoingBidirectionalPepolar(rpe) == Len(rpe) > 0

\* (plus_files, minus_files), swapped when the phase direction is reversed
PlusMinusFilesSwapped(dwi, rpe, pedir) ==
    IF EndsWith(pedir, <<"-">>) THEN <<dwi, rpe>> ELSE <<rpe, dwi>>
PlusMinusFiles(dwi, rpe, pedir) ==
    IF EndsWith(pedir, <<"-">>) THEN <<rpe, dwi>> ELSE <<dwi, rpe>>

\* The keyword arguments the builder gives init_merge_and_denoise_wf
MergeKwargsMinusDefault(window, before_combining, nthreads, lowmem, name) ==
    [dwi_denoise_window |-> IF name = "merge_minus" THEN 0 ELSE window,
     denoise_before_combining |-> before_combining,
     name |-> name]
MergeKwargs(window, before_combining, nthreads, lowmem, name) ==
    [dwi_denoise_window |-> window,
     denoise_before_combining |-> before_combining,
     name |-> name]

\* init_merge_and_denoise_wf: the sub-workflow it returns.  A malformed window
\* is a construction-time failure of the builder; whether this callee is the
\* place that raises is not visible, so both outcomes are kept.
MergeOutcomes(kwargs) ==
    LET w == kwargs.dwi_denoise_window
    IN  IF w < 0 \/ (w > 0 /\ w % 2 = 0) THEN {"raise", "return"} ELSE {"return"}
\* The stages of the sub-workflow: a window of zero skips denoising; otherwise
\* one denoise stage runs before the merge when denoise_before_combining is
\* set, and after it when not
MergeStages(kwargs) ==
    IF kwargs.dwi_denoise_window > 0
    THEN IF kwargs.denoise_before_combining
         THEN <<"denoise", "merge">> ELSE <<"merge", "denoise">>
    ELSE <<"merge">>
InitMergeAndDenoiseWf(kwargs) ==
    [kind |-> "merge_and_denoise_wf", name |-> kwargs.name, args |-> kwargs,
     stages |-> MergeStages(kwargs)]

\* pe.Node(SplitDWIs(), name=...), pe.Node(ConcatRPESplits(), name=...):
\* the interfaces are constructed without arguments
NoArgs == [k \in {} |-> 0]
Node(kind, name) == [kind |-> kind, name |-> name, args |-> NoArgs]

\* The connection list of the single-direction topology
SingleConnectionsCrossed(merge, split, out) ==
    << <<merge, split, << <<"outputnode.merged_image", "dwi_file">>,
                          <<"outputnode.merged_bval", "bval_file">>,
                          <<"outputnode.merged_bvec", "bvec_file">> >> >>,
       <<split, out, << <<"dwi_files", "dwi_files">>,
                        <<"bval_files", "bvec_files">>,
                        <<"bvec_files", "bval_files">>,
                        <<"original_files", "original_files">>,
                        <<"b0_images", "b0_images">>,
                        <<"b0_indices", "b0_indices">> >> >> >>
SingleConnections(merge, split, out) ==
    << <<merge, split, << <<"outputnode.merged_image", "dwi_file">>,
                          <<"outputnode.merged_bval", "bval_file">>,
                          <<"outputnode.merged_bvec", "bvec_file">> >> >>,
       <<split, out, << <<"dwi_files", "dwi_files">>,
                        <<"bval_files", "bval_files">>,
                        <<"bvec_files", "bvec_files">>,
                        <<"original_files", "original_files">>,
                        <<"b0_images", "b0_images">>,
                        <<"b0_indices", "b0_indices">> >> >> >>

\* The three blocks of the bidirectional connection list
MergeToSplit(merge, split) ==
    <<merge, split, << <<"outputnode.merged_image", "dwi_file">>,
                       <<"outputnode.merged_bval", "bval_file">>,
                       <<"outputnode.merged_bvec", "bvec_file">> >> >>
SplitPlusToConcatCrossed(split, concat) ==
    <<split, concat, << <<"bval_files", "bval_plus">>,
                        <<"bvec_files", "bvec_plus">>,
                        <<"dwi_files", "dwi_plus">>,
                        <<"b0_images", "b0_indices_plus">>,
                        <<"b0_indices", "b0_images_plus">>,
                        <<"original_files", "original_files_plus">> >> >>
SplitPlusToConcat(split, concat) ==
    <<split, concat, << <<"bval_files", "bval_plus">>,
                        <<"bvec_files", "bvec_plus">>,
                        <<"dwi_files", "dwi_plus">>,
                        <<"b0_images", "b0_images_plus">>,
                        <<"b0_indices", "b0_indices_plus">>,
                        <<"original_files", "original_files_plus">> >> >>
SplitMinusToConcatPasted(split, concat) ==
    <<split, concat, << <<"bval_files", "bval_plus">>,
                        <<"bvec_files", "bvec_plus">>,
                        <<"dwi_files", "dwi_plus">>,
                        <<"b0_images", "b0_images_plus">>,
                        <<"b0_indices", "b0_indices_plus">>,
                        <<"original_files", "original_files_plus">> >> >>
SplitMinusToConcat(split, concat) ==
    <<split, concat, << <<"bval_files", "bval_minus">>,
                        <<"bvec_files", "bvec_minus">>,
                        <<"dwi_files", "dwi_minus">>,
                        <<"b0_images", "b0_images_minus">>,
                        <<"b0_indices", "b0_indices_minus">>,
                        <<"original_files", "original_files_minus">> >> >>
ConcatToOutputWithRpeB0s(concat, out) ==
    <<concat, out, << <<"dwi_files", "dwi_files">>,
                      <<"bval_files", "bval_files">>,
                      <<"bvec_files", "bvec_files">>,
                      <<"original_files", "original_files">>,
                      <<"b0_images", "b0_images">>,
                      <<"b0_indices", "b0_indices">>,
                      <<"b0_images", "rpe_b0s">> >> >>
ConcatToOutput(concat, out) ==
    <<concat, out, << <<"dwi_files", "dwi_files">>,
                      <<"bval_files", "bval_files">>,
                      <<"bvec_files", "bvec_files">>,
                      <<"original_files", "original_files">>,
                      <<"b0_images", "b0_images">>,
                      <<"b0_indices", "b0_indices">> >> >>
BidirConnectionsNoMinusChain(mp, sp, mm, sm, cc, out) ==
    << MergeToSplit(mp, sp), SplitPlusToConcat(sp, cc),
       SplitMinusToConcat(sm, cc), ConcatToOutput(cc, out) >>
BidirConnections(mp, sp, mm, sm, cc, out) ==
    << MergeToSplit(mp, sp), SplitPlusToConcat(sp, cc),
       MergeToSplit(mm, sm), SplitMinusToConcat(sm, cc),
       ConcatToOutput(cc, out) >>

\* workflow.connect(connection_list): every (source, destination, [(output,
\* input), ...]) adds both nodes to the graph and one edge per pair
ConnectedNodes(conns) ==
    {c[1] : c \in Range(conns)} \cup {c[2] : c \in Range(conns)}
ConnectedEdges(conns) ==
    UNION {{[src |-> c[1], out |-> p[1], dst |-> c[2], in |-> p[2]] :
              p \in Range(c[3])} : c \in Range(conns)}

\* ------------------------------------------------ init_dwi_pre_hmc_wf steps

LocalNames ==
    {"workflow", "outputnode", "merge_plus", "split_plus", "merge_minus",
     "split_minus", "concat_rpe_splits", "merge_dwis", "split_dwis"}

BuilderIdle ==
    /\ dwi_series = <<>> /\ rpe_series = <<>> /\ dwi_series_pedir = <<>>
    /\ dwi_denoise_window = 0 /\ denoise_before_combining = FALSE
    /\ omp_nthreads = 1 /\ low_mem = FALSE
    /\ pc = "idle" /\ instantiated = <<>>
    /\ locals = [v \in LocalNames |-> 0]
    /\ plus_files = <<>> /\ minus_files = <<>>
    /\ inputs = {} /\ wf_nodes = {} /\ wf_edges = {} /\ result = "none"

BuilderInit ==
    /\ dwi_series \in SeqsUpTo(DwiFiles, MaxSeries) \ {<<>>}
    /\ rpe_series \in SeqsUpTo(RpeFiles, MaxSeries)
    /\ dwi_series_pedir \in PeDirs
    /\ dwi_denoise_window \in -1..MaxWindow
    /\ denoise_before_combining \in BOOLEAN
    /\ omp_nthreads \in 1..MaxThreads
    /\ low_mem \in BOOLEAN
    /\ pc = "workflow" /\ instantiated = <<>>
    /\ locals = [v \in LocalNames |-> 0]
    /\ plus_files = <<>> /\ minus_files = <<>>
    /\ inputs = {} /\ wf_nodes = {} /\ wf_edges = {} /\ result = "none"

args == <<dwi_series, rpe_series, dwi_series_pedir, dwi_denoise_window,
          denoise_before_combining, omp_nthreads, low_mem>>

\* Construct an object and bind it to a local variable
New(var, obj) ==
    /\ instantiated' = Append(instantiated, obj)
    /\ locals' = [locals EXCEPT ![var] = Len(instantiated) + 1]

\* The call of init_merge_and_denoise_wf bound to `var`
NewMerge(var, name, next) ==
    LET kwargs == MergeKwargs(dwi_denoise_window, denoise_before_combining,
                              omp_nthreads, low_mem, name)
    IN  \E outcome \in MergeOutcomes(kwargs) :
          IF outcome = "raise"
          THEN /\ pc' = "done" /\ result' = "error"
               /\ UNCHANGED <<instantiated, locals>>
          ELSE /\ New(var, InitMergeAndDenoiseWf(kwargs))
               /\ pc' = next /\ UNCHANGED result

NewWorkflow ==
    /\ pc = "workflow"
    /\ New("workflow", [kind |-> "Workflow", name |-> "pre_hmc_wf", args |-> NoArgs])
    /\ pc' = "outputnode"
    /\ UNCHANGED <<args, plus_files, minus_files, inputs, wf_nodes, wf_edges, result, pvars>>

NewOutputnode ==
    /\ pc = "outputnode"
    /\ New("outputnode", [kind |-> "IdentityInterface", name |-> "outputnode",
                          args |-> [fields |-> OutputFields]])
    /\ pc' = "branch"
    /\ UNCHANGED <<args, plus_files, minus_files, inputs, wf_nodes, wf_edges, result, pvars>>

BranchBidirectional ==
    /\ pc = "branch"
    /\ DoingBidirectionalPepolar(rpe_series)
    /\ plus_files' = PlusMinusFiles(dwi_series, rpe_series, dwi_series_pedir)[1]
    /\ minus_files' = PlusMinusFiles(dwi_series, rpe_series, dwi_series_pedir)[2]
    /\ pc' = "merge_plus"
    /\ UNCHANGED <<args, instantiated, locals, inputs, wf_nodes, wf_edges, result, pvars>>

BranchSingle ==
    /\ pc = "branch"
    /\ ~DoingBidirectionalPepolar(rpe_series)
    /\ pc' = "merge_dwis"
    /\ UNCHANGED <<args, instantiated, locals, plus_files, minus_files, inputs,
                   wf_nodes, wf_edges, result, pvars>>

NewMergePlus ==
    /\ pc = "merge_plus"
    /\ NewMerge("merge_plus", "merge_plus", "split_plus")
    /\ UNCHANGED <<args, plus_files, minus_files, inputs, wf_nodes, wf_edges, pvars>>

NewSplitPlus ==
    /\ pc = "split_plus"
    /\ New("split_plus", Node("SplitDWIs", "split_plus"))
    /\ pc' = "set_plus"
    /\ UNCHANGED <<args, plus_files, minus_files, inputs, wf_nodes, wf_edges, result, pvars>>

SetPlusInput ==
    /\ pc = "set_plus"
    /\ inputs' = inputs \cup {<<locals["merge_plus"], plus_files>>}
    /\ pc' = "merge_minus"
    /\ UNCHANGED <<args, instantiated, locals, plus_files, minus_files, wf_nodes,
                   wf_edges, result, pvars>>

NewMergeMinus ==
    /\ pc = "merge_minus"
    /\ NewMerge("merge_minus", "merge_minus", "split_minus")
    /\ UNCHANGED <<args, plus_files, minus_files, inputs, wf_nodes, wf_edges, pvars>>

NewSplitMinus ==
    /\ pc = "split_minus"
    /\ New("split_minus", Node("SplitDWIs", "split_minus"))
    /\ pc' = "set_minus"
    /\ UNCHANGED <<args, plus_files, minus_files, inputs, wf_nodes, wf_edges, result, pvars>>

SetMinusInput ==
    /\ pc = "set_minus"
    /\ inputs' = inputs \cup {<<locals["merge_minus"], minus_files>>}
    /\ pc' = "concat"
    /\ UNCHANGED <<args, instantiated, locals, plus_files, minus_files, wf_nodes,
                   wf_edges, result, pvars>>

NewConcat ==
    /\ pc = "concat"
    /\ New("concat_rpe_splits", Node("ConcatRPESplits", "concat_rpe_splits"))
    /\ pc' = "connect_bidir"
    /\ UNCHANGED <<args, plus_files, minus_files, inputs, wf_nodes, wf_edges, result, pvars>>

ConnectBidirectional ==
    /\ pc = "connect_bidir"
    /\ LET conns == BidirConnections(locals["merge_plus"], locals["split_plus"],
                                     locals["merge_minus"], locals["split_minus"],
                                     locals["concat_rpe_splits"], locals["outputnode"])
       IN  /\ wf_nodes' = wf_nodes \cup ConnectedNodes(conns)
           /\ wf_edges' = wf_edges \cup ConnectedEdges(conns)
    /\ pc' = "return"
    /\ UNCHANGED <<args, instantiated, locals, plus_files, minus_files, inputs, result, pvars>>

NewMergeDwis ==
    /\ pc = "merge_dwis"
    /\ NewMerge("merge_dwis", "merge_dwis", "split_dwis")
    /\ UNCHANGED <<args, plus_files, minus_files, inputs, wf_nodes, wf_edges, pvars>>

NewSplitDwis ==
    /\ pc = "split_dwis"
    /\ New("split_dwis", Node("SplitDWIs", "split_dwis"))
    /\ pc' = "set_dwis"
    /\ UNCHANGED <<args, plus_files, minus_files, inputs, wf_nodes, wf_edges, result, pvars>>

SetDwisInput ==
    /\ pc = "set_dwis"
    /\ inputs' = inputs \cup {<<locals["merge_dwis"], dwi_series>>}
    /\ pc' = "split_dwis_again"
    /\ UNCHANGED <<args, instantiated, locals, plus_files, minus_files, wf_nodes,
                   wf_edges, result, pvars>>

\* split_dwis is constructed a second time; the name is rebound to the new node
NewSplitDwisAgain ==
    /\ pc = "split_dwis_again"
    /\ New("split_dwis", Node("SplitDWIs", "split_dwis"))
    /\ pc' = "connect_single"
    /\ UNCHANGED <<args, plus_files, minus_files, inputs, wf_nodes, wf_edges, result, pvars>>

ConnectSingle ==
    /\ pc = "connect_single"
    /\ LET conns == SingleConnections(locals["merge_dwis"], locals["split_dwis"],
                                      locals["outputnode"])
       IN  /\ wf_nodes' = wf_nodes \cup ConnectedNodes(conns)
           /\ wf_edges' = wf_edges \cup ConnectedEdges(conns)
    /\ pc' = "return"
    /\ UNCHANGED <<args, instantiated, locals, plus_files, minus_files, inputs, result, pvars>>

ReturnWorkflow ==
    /\ pc = "return"
    /\ result' = "workflow"
    /\ pc' = "done"
    /\ UNCHANGED <<args, instantiated, locals, plus_files, minus_files, inputs,
                   wf_nodes, wf_edges, pvars>>

BuilderNext ==
    \/ NewWorkflow \/ NewOutputnode \/ BranchBidirectional \/ BranchSingle
    \/ NewMergePlus \/ NewSplitPlus \/ SetPlusInput
    \/ NewMergeMinus \/ NewSplitMinus \/ SetMinusInput
    \/ NewConcat \/ ConnectBidirectional
    \/ NewMergeDwis \/ NewSplitDwis \/ SetDwisInput \/ NewSplitDwisAgain
    \/ ConnectSingle \/ ReturnWorkflow

\* ------------------------------------------------------ niworkflows.py: plot

\* to_plot
ToPlot == <<"bval", "hmc_xcorr", "framewise_displacement">>

ColumnNames == Range(ToPlot) \cup {"trans_x", "rot_z"}

\* [p for p in to_plot if p in self.confounds.columns]
ConfoundNamesInTableOrder(cols) ==
    LET F[i \in 0..Len(cols)] ==
            IF i = 0 THEN <<>>
            ELSE IF cols[i] \in Range(ToPlot) THEN Append(F[i - 1], cols[i])
            ELSE F[i - 1]
    IN  F[Len(cols)]
ConfoundNames(cols) ==
    LET F[i \in 0..Len(ToPlot)] ==
            IF i = 0 THEN <<>>
            ELSE IF ToPlot[i] \in Range(cols) THEN Append(F[i - 1], ToPlot[i])
            ELSE F[i - 1]
    IN  F[Len(ToPlot)]

\* nrows = 1 + nconfounds
GridRows(names) == 1 + Len(names)

\* tr: None, or a float (here in milliseconds)
Trs == {<<>>, <<1234>>, <<2500>>}

\* if tr is None: notr = True; tr = 1.
NoTr(tr_arg) == tr_arg = <<>>
EffectiveTrIgnored(tr_arg) == 1000
EffectiveTr(tr_arg) == IF tr_arg = <<>> THEN 1000 ELSE tr_arg[1]

Max3(a, b, c) ==
    IF a >= b /\ a >= c THEN a ELSE IF b >= c THEN b ELSE c

\* plot_sliceqc: interval = max((n + 1) // 10, (n + 1) // 5, 1)
SliceQCInterval(n) == Max3((n + 1) \div 10, (n + 1) \div 5, 1)

\* confoundplot: interval = max((ntsteps // 10, ntsteps // 5, 1))
ConfoundInterval(n) == Max3(n \div 10, n \div 5, 1)

\* list(range(0, n)[::interval])
XTicks(n, interval) ==
    IF n <= 0 THEN <<>>
    ELSE [i \in 1..((n - 1) \div interval + 1) |-> (i - 1) * interval]

\* '%.02f' % t: t (in thousandths) printed with two decimals (in hundredths)
Format2(t) == (t + 5) \div 10

\* ['%.02f' % t for t in (tr * np.array(xticks)).tolist()]
TickLabels(tr_ms, xticks) ==
    [i \in 1..Len(xticks) |-> Format2(tr_ms * xticks[i])]

\* confoundplot(tseries, gs_ts, name=name, tr=tr, hide_x=hide_x): the band it
\* draws spans len(tseries) time steps.  The x label and the tick labels are
\* set only when hide_x is false; without tr the tick labels are left to the
\* axis ("auto").
ConfoundBand(name, row, tseries_len, tr_arg, hide) ==
    LET xticks == XTicks(tseries_len, ConfoundInterval(tseries_len))
    IN  [kind |-> "confound", name |-> name, row |-> row,
         ntsteps |-> tseries_len, sidebar |-> 0,
         xticks |-> xticks,
         xlabel |-> IF hide THEN ""
                    ELSE IF NoTr(tr_arg) THEN "time (frame #)" ELSE "time (s)",
         ticklabels |-> IF hide THEN "none"
                        ELSE IF NoTr(tr_arg) THEN "auto" ELSE "set",
         xticklabels |-> IF hide \/ NoTr(tr_arg) THEN <<>>
                         ELSE TickLabels(EffectiveTr(tr_arg), xticks)]

\* grid[-1]
LastRow(n) == n - 1

\* plot_sliceqc(slice_data, nperslice, subplot=..., tr=tr): the carpet is the
\* whole matrix, the side bar the whole count vector
CarpetBand(row, shape, nperslice_len, tr_arg) ==
    LET xticks == XTicks(shape[2], SliceQCInterval(shape[2]))
    IN  [kind |-> "carpet", name |-> "slice_scores", row |-> row,
         ntsteps |-> shape[2], sidebar |-> nperslice_len,
         xticks |-> xticks,
         xlabel |-> IF NoTr(tr_arg) THEN "time (frame #)" ELSE "time (s)",
         ticklabels |-> "set",
         xticklabels |-> TickLabels(EffectiveTr(tr_arg), xticks)]

\* Arguments left at their default
None == <<>>
HideXDefault == TRUE

PlotIdle ==
    /\ columns = <<>> /\ conf_len = 0 /\ scores_shape = <<0, 0>> /\ counts_len = 0
    /\ plot_pc = "idle" /\ confound_names = <<>> /\ nrows = 0 /\ grid_id = 0
    /\ drawn = <<>> /\ plot_result = "none"
    /\ entry = "none" /\ tr = <<>> /\ hide_x = TRUE

\* dMRIPlot.__init__ has loaded the arrays and kept the table
PlotInit ==
    /\ columns \in {c \in SeqsUpTo(ColumnNames, MaxColumns) :
                      \A i, j \in 1..Len(c) : i # j => c[i] # c[j]}
    /\ conf_len \in 1..MaxVols
    /\ scores_shape \in (1..MaxSlices) \X (1..MaxVols)
    /\ counts_len \in 1..MaxSlices
    /\ plot_pc = "begin" /\ confound_names = <<>> /\ nrows = 0 /\ grid_id = 0
    /\ drawn = <<>> /\ plot_result = "none"
    \* __init__ takes no sampling interval: the caller's stays with the caller
    /\ entry = "dMRIPlot.plot" /\ tr \in Trs /\ hide_x = TRUE

qc == <<columns, conf_len, scores_shape, counts_len, entry, tr, hide_x>>

PlotBegin ==
    /\ plot_pc = "begin"
    /\ confound_names' = ConfoundNames(columns)
    /\ nrows' = GridRows(ConfoundNames(columns))
    /\ grid_id' = 0
    /\ plot_pc' = "loop"
    /\ UNCHANGED <<qc, drawn, plot_result, bvars>>

\* One iteration of the loop; i of enumerate and grid_id advance together
PlotConfound ==
    /\ plot_pc = "loop"
    /\ grid_id < Len(confound_names)
    /\ drawn' = Append(drawn, ConfoundBand(confound_names[grid_id + 1], grid_id, conf_len,
                                             None, HideXDefault))
    /\ grid_id' = grid_id + 1
    /\ UNCHANGED <<qc, plot_pc, confound_names, nrows, plot_result, bvars>>

PlotSliceQC ==
    /\ plot_pc = "loop"
    /\ grid_id >= Len(confound_names)
    /\ drawn' = Append(drawn, CarpetBand(LastRow(nrows), scores_shape, counts_len, None))
    /\ plot_pc' = "return"
    /\ UNCHANGED <<qc, confound_names, nrows, grid_id, plot_result, bvars>>

PlotReturn ==
    /\ plot_pc = "return"
    /\ plot_result' = "figure"
    /\ plot_pc' = "done"
    /\ UNCHANGED <<qc, confound_names, nrows, grid_id, drawn, bvars>>

PlotNext == PlotBegin \/ PlotConfound \/ PlotSliceQC \/ PlotReturn

\* ------------------------- niworkflows.py: the plotting functions called directly

\* plot_sliceqc(slice_data, nperslice, tr=tr) is about to be called
SliceQCInit ==
    /\ columns = <<>> /\ conf_len = 0
    /\ scores_shape \in (1..MaxSlices) \X (1..MaxFrames)
    /\ counts_len \in 1..MaxSlices
    /\ plot_pc = "call" /\ confound_names = <<>> /\ nrows = 0 /\ grid_id = 0
    /\ drawn = <<>> /\ plot_result = "none"
    /\ entry = "plot_sliceqc" /\ tr \in Trs /\ hide_x = TRUE

\* confoundplot(tseries, gs_ts, tr=tr, hide_x=hide_x) is about to be called
ConfoundInit ==
    /\ columns = <<>> /\ conf_len \in 1..MaxFrames
    /\ scores_shape = <<0, 0>> /\ counts_len = 0
    /\ plot_pc = "call" /\ confound_names = <<>> /\ nrows = 0 /\ grid_id = 0
    /\ drawn = <<>> /\ plot_result = "none"
    /\ entry = "confoundplot" /\ tr \in Trs /\ hide_x \in BOOLEAN

\* subplot is None: mgs.GridSpec(1, 1)[0]; output_file is None: the axes are returned
CallPlotSliceQC ==
    /\ plot_pc = "call" /\ entry = "plot_sliceqc"
    /\ drawn' = Append(drawn, CarpetBand(0, scores_shape, counts_len, tr))
    /\ plot_result' = "axes"
    /\ plot_pc' = "done"
    /\ UNCHANGED <<qc, confound_names, nrows, grid_id, bvars>>

\* name is None, gs_dist is None: ax_ts, gs are returned
CallConfoundplot ==
    /\ plot_pc = "call" /\ entry = "confoundplot"
    /\ drawn' = Append(drawn, ConfoundBand("", 0, conf_len, tr, hide_x))
    /\ plot_result' = "axes"
    /\ plot_pc' = "done"
    /\ UNCHANGED <<qc, confound_names, nrows, grid_id, bvars>>

AxisNext == PlotNext \/ CallPlotSliceQC \/ CallConfoundplot

\* ------------------------------------------------------------ specifications
Init == BuilderInit /\ PlotIdle
Next == BuilderNext
Spec == Init /\ [][Next]_vars

InitPlot == BuilderIdle /\ PlotInit
PlotSpec == InitPlot /\ [][PlotNext]_vars

InitAxis == BuilderIdle /\ (PlotInit \/ SliceQCInit \/ ConfoundInit)
AxisSpec == InitAxis /\ [][AxisNext]_vars

\* ==================================================================== claims

\* ---- vocabulary of the claims about the returned graph
Returned == result = "workflow"
Bidirectional == Len(rpe_series) > 0
Reversed == Len(dwi_series_pedir) > 0 /\ dwi_series_pedir[Len(dwi_series_pedir)] = "-"
Malformed(w) == w < 0 \/ (w > 0 /\ w % 2 = 0)

GraphOfKind(kind) == {n \in wf_nodes : instantiated[n].kind = kind}
Merges == GraphOfKind("merge_and_denoise_wf")
Splits == GraphOfKind("SplitDWIs")
Concats == GraphOfKind("ConcatRPESplits")
Outputnodes == {n \in wf_nodes : instantiated[n].name = "outputnode"}

Edge(s, o, d, i) == [src |-> s, out |-> o, dst |-> d, in |-> i]
EdgesInto(d, i) == {e \in wf_edges : e.dst = d /\ e.in = i}
Feeds(m, s) ==
    /\ EdgesInto(s, "dwi_file") = {Edge(m, "outputnode.merged_image", s, "dwi_file")}
    /\ EdgesInto(s, "bval_file") = {Edge(m, "outputnode.merged_bval", s, "bval_file")}
    /\ EdgesInto(s, "bvec_file") = {Edge(m, "outputnode.merged_bvec", s, "bvec_file")}

SixOutputs ==
    {"dwi_files", "bval_files", "bvec_files", "original_files", "b0_images", "b0_indices"}
Polarities == {"plus", "minus"}
ConcatInput ==
    [plus |-> [dwi_files |-> "dwi_plus", bval_files |-> "bval_plus",
               bvec_files |-> "bvec_plus", original_files |-> "original_files_plus",
               b0_images |-> "b0_images_plus", b0_indices |-> "b0_indices_plus"],
     minus |-> [dwi_files |-> "dwi_minus", bval_files |-> "bval_minus",
                bvec_files |-> "bvec_minus", original_files |-> "original_files_minus",
                b0_images |-> "b0_images_minus", b0_indices |-> "b0_indices_minus"]]

NodeName(n) == instantiated[n].name
NamedNodes == {NodeName(n) : n \in wf_nodes}
NamedEdges == {Edge(NodeName(e.src), e.out, NodeName(e.dst), e.in) : e \in wf_edges}

\* C1: a call with a non-empty dwi_series and an empty rpe_series returns a
\* graph with exactly one merge stage, exactly one split node and no
\* concatenation node; the merge's merged_image/merged_bval/merged_bvec feed
\* the split's dwi_file/bval_file/bvec_file, and each of the six outputnode
\* slots is bound to the split's output of the same name.
C1_SingleTopology ==
    (Returned /\ ~Bidirectional) =>
        /\ Cardinality(Merges) = 1
        /\ Cardinality(Splits) = 1
        /\ Concats = {}
        /\ Cardinality(Outputnodes) = 1
        /\ \A m \in Merges, sp \in Splits, o \in Outputnodes :
              /\ Feeds(m, sp)
              /\ \A f \in SixOutputs : EdgesInto(o, f) = {Edge(sp, f, o, f)}
C1_Witness ==
    /\ Returned /\ ~Bidirectional /\ Len(dwi_series) = 2
    /\ Len(instantiated) = 5 /\ Cardinality(wf_edges) = 9

\* C2: a call with non-empty dwi_series and rpe_series returns a graph with
\* exactly two merge/split chains and exactly one concatenation node, and its
\* named nodes and edges are one fixed set, the same with and without the
\* reversal marker on dwi_series_pedir.
C2_Nodes ==
    {"merge_plus", "split_plus", "merge_minus", "split_minus",
     "concat_rpe_splits", "outputnode"}
C2_Edges ==
    UNION {
      {Edge("merge_plus", "outputnode.merged_image", "split_plus", "dwi_file"),
       Edge("merge_plus", "outputnode.merged_bval", "split_plus", "bval_file"),
       Edge("merge_plus", "outputnode.merged_bvec", "split_plus", "bvec_file"),
       Edge("merge_minus", "outputnode.merged_image", "split_minus", "dwi_file"),
       Edge("merge_minus", "outputnode.merged_bval", "split_minus", "bval_file"),
       Edge("merge_minus", "outputnode.merged_bvec", "split_minus", "bvec_file")},
      {Edge("split_plus", f, "concat_rpe_splits", ConcatInput["plus"][f]) : f \in SixOutputs},
      {Edge("split_minus", f, "concat_rpe_splits", ConcatInput["minus"][f]) : f \in SixOutputs},
      {Edge("concat_rpe_splits", f, "outputnode", f) : f \in SixOutputs} }
C2_BidirectionalTopology ==
    (Returned /\ Bidirectional) =>
        /\ Cardinality(Merges) = 2
        /\ Cardinality(Splits) = 2
        /\ Cardinality(Concats) = 1
        /\ \A m \in Merges : Cardinality({sp \in Splits : Feeds(m, sp)}) = 1
        /\ \A sp \in Splits : Cardinality({m \in Merges : Feeds(m, sp)}) = 1
        /\ Cardinality(wf_nodes) = Cardinality(C2_Nodes)
        /\ NamedNodes = C2_Nodes
        /\ NamedEdges = C2_Edges
C2_Witness ==
    /\ Returned /\ Bidirectional /\ Reversed
    /\ Len(dwi_series) = 2 /\ Len(rpe_series) = 1

\* C3: in the bidirectional topology the chain that feeds the '_plus' inputs
\* of the concatenation node has rpe_series as its input when dwi_series_pedir
\* ends with '-', and dwi_series otherwise; the chain that feeds the '_minus'
\* inputs has the other list; the two lists go one to each chain.
ChainMerge(pol) ==
    {m \in Merges : \E sp \in Splits, cc \in Concats :
        /\ Feeds(m, sp)
        /\ Edge(sp, "dwi_files", cc, ConcatInput[pol]["dwi_files"]) \in wf_edges}
InputOf(m) == {p[2] : p \in {q \in inputs : q[1] = m}}
C3_PlusMinusAssignment ==
    (Returned /\ Bidirectional) =>
        /\ Cardinality(ChainMerge("plus")) = 1
        /\ Cardinality(ChainMerge("minus")) = 1
        /\ ChainMerge("plus") \cap ChainMerge("minus") = {}
        /\ \A m \in ChainMerge("plus") :
              InputOf(m) = {IF Reversed THEN rpe_series ELSE dwi_series}
        /\ \A m \in ChainMerge("minus") :
              InputOf(m) = {IF Reversed THEN dwi_series ELSE rpe_series}
        /\ {p[1] : p \in inputs} = ChainMerge("plus") \cup ChainMerge("minus")
C3_Witness ==
    /\ Returned /\ Bidirectional /\ Reversed
    /\ \E m \in ChainMerge("plus") : InputOf(m) = {rpe_series}
    /\ \E m \in ChainMerge("minus") : InputOf(m) = {dwi_series}

\* C4: in the bidirectional topology, for each of the six per-volume fields
\* the plus split's output is the one source of the concatenation node's
\* '_plus' input of that field, the minus split's output the one source of
\* its '_minus' input, and each of the concatenation node's six outputs is
\* the one source of the outputnode slot of the same name.
SplitOf(pol) == IF pol = "plus" THEN locals["split_plus"] ELSE locals["split_minus"]
C4_ConcatWiring ==
    (Returned /\ Bidirectional) =>
        \A cc \in Concats, o \in Outputnodes :
            /\ \A pol \in Polarities, f \in SixOutputs :
                  EdgesInto(cc, ConcatInput[pol][f]) =
                      {Edge(SplitOf(pol), f, cc, ConcatInput[pol][f])}
            /\ Cardinality({e \in wf_edges : e.dst = cc}) = 12
            /\ \A f \in SixOutputs : EdgesInto(o, f) = {Edge(cc, f, o, f)}
C4_Witness ==
    /\ Returned /\ Bidirectional /\ ~Reversed
    /\ locals["split_plus"] # locals["split_minus"]
    /\ Cardinality(Concats) = 1 /\ Cardinality(wf_edges) = 24

\* C5: in every graph the builder makes, each destination slot (node, input
\* name) is the target of at most one edge.
C5_OneSourcePerSlot ==
    \A e1, e2 \in wf_edges : (e1.dst = e2.dst /\ e1.in = e2.in) => e1 = e2
C5_Witness ==
    /\ Returned /\ Bidirectional
    /\ Cardinality({<<e.dst, e.in>> : e \in wf_edges}) = 24

\* C6: a call with a malformed denoising window (negative, or positive and
\* even) fails before any node is instantiated: nothing is ever constructed
\* in such a call, and no graph is returned.
C6_FailsBeforeAnyNode ==
    Malformed(dwi_denoise_window) =>
        /\ instantiated = <<>>
        /\ result # "workflow"

\* C7: every merge/denoise sub-workflow and split node the builder creates
\* is given the caller's omp_nthreads and low_mem.
SubStages ==
    {i \in 1..Len(instantiated) :
        instantiated[i].kind \in {"merge_and_denoise_wf", "SplitDWIs"}}
C7_ResourceHintsForwarded ==
    \A i \in SubStages :
        /\ "omp_nthreads" \in DOMAIN instantiated[i].args
        /\ instantiated[i].args["omp_nthreads"] = omp_nthreads
        /\ "low_mem" \in DOMAIN instantiated[i].args
        /\ instantiated[i].args["low_mem"] = low_mem

\* C8: in any returned graph the outputnode declares rpe_b0s and no edge
\* targets it; the bound outputnode slots are exactly dwi_files, bval_files,
\* bvec_files, original_files, b0_images, b0_indices in both topologies.
C8_RpeB0sUnbound ==
    Returned =>
        \A o \in Outputnodes :
            /\ "rpe_b0s" \in Range(instantiated[o].args.fields)
            /\ EdgesInto(o, "rpe_b0s") = {}
            /\ {e.in : e \in {x \in wf_edges : x.dst = o}} = SixOutputs
C8_Witness ==
    /\ Returned /\ Bidirectional
    /\ \E o \in Outputnodes : Cardinality({x \in wf_edges : x.dst = o}) = 6

\* ---- vocabulary of the claims about the plot
Recognized == {"bval", "hmc_xcorr", "framewise_displacement"}
Priority == [bval |-> 1, hmc_xcorr |-> 2, framewise_displacement |-> 3]
Present == Recognized \cap Range(columns)

\* C9: plot draws one confound band for each of bval, hmc_xcorr,
\* framewise_displacement that is a column of the table, in that order
\* whatever the column order, ignores the other columns, and draws exactly
\* one carpet band last; the grid has 1 + (recognized names present) rows.
C9_BandsDrawn ==
    plot_pc = "done" =>
        LET n == Cardinality(Present)
        IN  /\ nrows = 1 + n
            /\ Len(drawn) = 1 + n
            /\ drawn[n + 1].kind = "carpet"
            /\ drawn[n + 1].row = nrows - 1
            /\ \A k \in 1..n :
                  /\ drawn[k].kind = "confound"
                  /\ drawn[k].name \in Present
                  /\ drawn[k].row = k - 1
            /\ \A j, k \in 1..n :
                  j < k => Priority[drawn[j].name] < Priority[drawn[k].name]
C9_Witness ==
    /\ plot_pc = "done"
    /\ columns = <<"framewise_displacement", "trans_x", "bval">>
    /\ Len(drawn) = 3 /\ drawn[1].name = "bval"

\* C10: when the QC arrays are misaligned along the volume axis (slice_scores
\* has a number of columns other than the length of a selected confound
\* column, or slice_counts does not match the matrix), plot raises before
\* drawing anything: no band is drawn and no figure is returned.
Misaligned ==
    \/ (Present # {} /\ scores_shape[2] # conf_len)
    \/ counts_len # scores_shape[1]
C10_MisalignedRejected ==
    (plot_pc # "idle" /\ Misaligned) =>
        /\ drawn = <<>>
        /\ plot_result # "figure"

\* ---- vocabulary of the claims about the x-axis
Carpets == {i \in 1..Len(drawn) : drawn[i].kind = "carpet"}
\* L (hundredths) is t (thousandths) printed with two decimals
PrintedAs(L, t) == 10 * L - 5 <= t /\ t < 10 * L + 5
\* The carpet's x-axis follows the rule for the sampling interval `given`
AxisFollows(band, given) ==
    /\ Len(band.xticklabels) = Len(band.xticks)
    /\ IF given = <<>>
       THEN /\ band.xlabel = "time (frame #)"
            /\ \A i \in 1..Len(band.xticks) :
                  band.xticklabels[i] = 100 * band.xticks[i]
       ELSE /\ band.xlabel = "time (s)"
            /\ \A i \in 1..Len(band.xticks) :
                  PrintedAs(band.xticklabels[i], given[1] * band.xticks[i])

\* C11 as stated: the carpet's x-axis is in elapsed time when a sampling
\* interval is supplied ('time (s)', tick k labelled tr * k) and in frame
\* index otherwise ('time (frame #)', tick k labelled k), for plot_sliceqc
\* and, with the caller's sampling interval, through dMRIPlot.plot.
C11_AxisFollowsCallersTr ==
    \A i \in Carpets : AxisFollows(drawn[i], tr)

\* C11 as amended: plot_sliceqc called with tr labels the axis 'time (s)' and
\* tick k with tr * k printed with two decimals, and without tr labels it
\* 'time (frame #)' and tick k with k; through dMRIPlot.plot no sampling
\* interval is passed on, so the carpet is in frame index whatever the
\* caller's sampling interval.
C11_AxisFollowsPassedTr ==
    \A i \in Carpets :
        AxisFollows(drawn[i], IF entry = "plot_sliceqc" THEN tr ELSE <<>>)
C11_Witness ==
    /\ entry = "plot_sliceqc" /\ tr = <<1234>> /\ plot_pc = "done"
    /\ scores_shape[2] = 11
    /\ Carpets = {1}
    /\ drawn[1].xticks = <<0, 2, 4, 6, 8, 10>>
    /\ drawn[1].xticklabels = <<0, 247, 494, 740, 987, 1234>>

\* C12: a window of 0 gives a graph with no denoise stage in any chain, a
\* positive odd window exactly one denoise stage in each chain (one chain in
\* the single-direction topology, the plus and the minus chain in the
\* bidirectional one), and every chain is built with the dwi_denoise_window
\* and denoise_before_combining the caller supplied.
DenoiseStages(m) ==
    Cardinality({i \in 1..Len(instantiated[m].stages) :
                    instantiated[m].stages[i] = "denoise"})
C12_DenoisePerChain ==
    Returned =>
        /\ Cardinality(Merges) = IF Bidirectional THEN 2 ELSE 1
        /\ \A m \in Merges :
              /\ instantiated[m].args.dwi_denoise_window = dwi_denoise_window
              /\ instantiated[m].args.denoise_before_combining = denoise_before_combining
              /\ dwi_denoise_window = 0 => DenoiseStages(m) = 0
              /\ (dwi_denoise_window > 0 /\ dwi_denoise_window % 2 = 1) =>
                    DenoiseStages(m) = 1
C12_Witness ==
    /\ Returned /\ Bidirectional /\ dwi_denoise_window = 3
    /\ Cardinality(Merges) = 2
    /\ \A m \in Merges : DenoiseStages(m) = 1

\* C13: for every number of frames n >= 10, plot_sliceqc and confoundplot
\* place exactly 10 frame markers on the x-axis, starting at frame 0 and all
\* inside 0..n-1.
C13_TenFrameMarkers ==
    \A i \in 1..Len(drawn) :
        drawn[i].ntsteps >= 10 =>
            /\ Len(drawn[i].xticks) = 10
            /\ drawn[i].xticks[1] = 0
            /\ \A k \in 1..Len(drawn[i].xticks) :
                  drawn[i].xticks[k] \in 0..(drawn[i].ntsteps - 1)

====
